---- MODULE Spec2Model ----
(***************************************************************************)
(* UBX frame codec (fuzz_helpers.rs) and the streaming frame parser that   *)
(* consumes the frames it builds.                                          *)
(***************************************************************************)
EXTENDS Integers, Sequences, FiniteSets, TLC

(***************************************************************************)
(* Bounds of the model.                                                    *)
(***************************************************************************)
\* longest payload handed to calculate_checksum / build_ubx_frame
MaxPayloadLen == 2
\* longest run of junk bytes in an input stream
MaxJunk == 3
\* most bytes handed over by one feed call (besides "all that is left")
MaxChunk == 2
\* capacity of the fixed parser buffer
Capacity == 16
\* most fields of a generated packet description
MaxFields == 25
\* bytes by which a declared length is cut short of the fields
SchemaCut == 1
\* how many bytes beyond the largest length a u16 holds the long payloads go
MaxOver == 2

(***************************************************************************)
(* Bytes.                                                                  *)
(***************************************************************************)
SYNC_CHAR_1 == 181
SYNC_CHAR_2 == 98

\* u8::saturating_add
saturating_add(a, b) == IF a + b > 255 THEN 255 ELSE a + b

\* u8::wrapping_add
wrapping_add(a, b) == (a + b) % 256

\* u16::to_le_bytes
to_le_bytes(len) == << len % 256, (len \div 256) % 256 >>

\* a cast that saturates at the largest u16
as_u16_saturating(n) == IF n > 65535 THEN 65535 ELSE n

\* `payload.len() as u16`
as_u16(n) == n % 65536

RECURSIVE SeqsUpTo(_, _)
SeqsUpTo(S, n) ==
    IF n = 0 THEN { <<>> }
    ELSE LET shorter == SeqsUpTo(S, n - 1)
         IN  shorter \cup { Append(s, b) : s \in shorter, b \in S }

(***************************************************************************)
(* fuzz_helpers.rs                                                         *)
(***************************************************************************)
\* the loop body of calculate_checksum, run over the remaining bytes:
\* the accumulator adds the BYTE into ck_b instead of the running ck_a
RECURSIVE ck_loop_sum_of_bytes(_, _, _)
ck_loop_sum_of_bytes(bytes, ck_a, ck_b) ==
    IF bytes = <<>> THEN << ck_a, ck_b >>
    ELSE ck_loop_sum_of_bytes(Tail(bytes),
                              wrapping_add(ck_a, Head(bytes)),
                              wrapping_add(ck_b, Head(bytes)))

\* the for loop of calculate_checksum over all of the bytes, in order: the
\* loop over bytes lo .. hi is the loop over the first half of them followed
\* by the loop over the rest, started with the sums the first half left
ck_loop(bytes, ck_a, ck_b) ==
    LET ck_for[lo \in Nat, hi \in Nat, ck \in Nat \X Nat] ==
            IF lo > hi THEN ck
            ELSE IF lo = hi
            THEN << wrapping_add(ck[1], bytes[lo]),
                    wrapping_add(ck[2], wrapping_add(ck[1], bytes[lo])) >>
            ELSE ck_for[(lo + hi) \div 2 + 1, hi, ck_for[lo, (lo + hi) \div 2, ck]]
    IN  ck_for[1, Len(bytes), << ck_a, ck_b >>]

\* calculate_checksum that also sums the two sync bytes
calculate_checksum_with_sync(class, id, payload) ==
    LET len_bytes == to_le_bytes(as_u16(Len(payload)))
    IN  ck_loop(<< SYNC_CHAR_1, SYNC_CHAR_2, class, id, len_bytes[1], len_bytes[2] >>
                    \o payload, 0, 0)

calculate_checksum(class, id, payload) ==
    LET len       == as_u16(Len(payload))
        len_bytes == to_le_bytes(len)
        data      == << class, id, len_bytes[1], len_bytes[2] >> \o payload
    IN  ck_loop(data, 0, 0)

\* build_ubx_frame writing the length field big-endian
build_ubx_frame_be(class, id, payload) ==
    LET ck        == calculate_checksum(class, id, payload)
        len_bytes == to_le_bytes(as_u16(Len(payload)))
    IN  << SYNC_CHAR_1, SYNC_CHAR_2, class, id, len_bytes[2], len_bytes[1] >>
            \o payload \o << ck[1], ck[2] >>

build_ubx_frame(class, id, payload) ==
    LET ck        == calculate_checksum(class, id, payload)
        len       == as_u16(Len(payload))
        len_bytes == to_le_bytes(len)
    IN  << SYNC_CHAR_1, SYNC_CHAR_2, class, id >> \o len_bytes
            \o payload \o << ck[1], ck[2] >>

(***************************************************************************)
(* Field types of a packet description.                                    *)
(***************************************************************************)
\* syn::Type::Path whose last segment is `name`, syn::Type::Array [elem; len]
Path(name) == [ kind |-> "path", name |-> name ]
Array(elem, len) == [ kind |-> "array", elem |-> elem, len |-> len ]

\* the type of a map_type attribute: a path whose last segment is `ident`
\* (letter by letter), with or without generic arguments; NoMap when the
\* field has no map_type
MapPath(ident, arguments) == [ kind |-> "path", ident |-> ident, arguments |-> arguments ]
NoMap == [ kind |-> "none", ident |-> <<>>, arguments |-> FALSE ]

\* a field without and with #[ubx(map_type = ...)]
Field(name, ty) == [ name |-> name, ty |-> ty, map_type |-> NoMap ]
Mapped(name, ty, map_type) == [ name |-> name, ty |-> ty, map_type |-> map_type ]

IntTypes == { "u8", "i8", "u16", "i16", "u32", "i32", "u64", "i64" }
Signed == { "i8", "i16", "i32", "i64" }

\* bytes of a primitive: what push / write_u16 / write_u32 append
size_of_prim(name) ==
    CASE name \in { "u8", "i8" }          -> 1
      [] name \in { "u16", "i16" }        -> 2
      [] name \in { "u32", "i32", "f32" } -> 4
      [] name \in { "u64", "i64", "f64" } -> 8

\* size_of that counts an array as one element
size_of_one_elem(ty) ==
    IF ty.kind = "array" THEN size_of_prim(ty.elem) ELSE size_of_prim(ty.name)

\* bytes of a declared field type
size_of(ty) ==
    IF ty.kind = "array" THEN size_of_prim(ty.elem) * ty.len ELSE size_of_prim(ty.name)

(***************************************************************************)
(* Packet schemas: generated/packets/*.rs                                  *)
(***************************************************************************)
MonIo == [ name |-> "MonIo", class |-> 10, id |-> 2, fixed_payload_len |-> 0,
           fields |-> <<>> ]
MonRxbuf == [ name |-> "MonRxbuf", class |-> 10, id |-> 7, fixed_payload_len |-> 24,
              fields |-> << Field("pending", Array("u16", 6)),
                            Field("usage", Array("u8", 6)),
                            Field("peak_usage", Array("u8", 6)) >> ]
MonSpan == [ name |-> "MonSpan", class |-> 10, id |-> 49, fixed_payload_len |-> 4,
             fields |-> << Field("version", Path("u8")),
                           Field("num_rf_blocks", Path("u8")),
                           Field("reserved0", Array("u8", 2)) >> ]
MonTxbuf == [ name |-> "MonTxbuf", class |-> 10, id |-> 8, fixed_payload_len |-> 28,
              fields |-> << Field("pending", Array("u16", 6)),
                            Field("usage", Array("u8", 6)),
                            Field("peak_usage", Array("u8", 6)),
                            Field("t_usage", Path("u8")),
                            Field("t_peakusage", Path("u8")),
                            Field("errors", Path("u8")),
                            Field("reserved0", Path("u8")) >> ]
NavPl == [ name |-> "NavPl", class |-> 1, id |-> 98, fixed_payload_len |-> 52,
           fields |-> << Field("msg_version", Path("u8")),
                         Field("tmir_coeff", Path("u8")),
                         Field("tmir_exp", Path("i8")),
                         Field("pl_pos_valid", Path("u8")),
                         Field("pl_pos_frame", Path("u8")),
                         Field("pl_vel_valid", Path("u8")),
                         Field("pl_vel_frame", Path("u8")),
                         Field("pl_time_valid", Path("u8")),
                         Field("pl_pos_invalidity_reason", Path("u8")),
                         Field("pl_vel_invalidity_reason", Path("u8")),
                         Field("pl_time_invalidity_reason", Path("u8")),
                         Field("reserved0", Path("u8")),
                         Field("i_tow", Path("u32")),
                         Field("pl_pos1", Path("u32")),
                         Field("pl_pos2", Path("u32")),
                         Field("pl_pos3", Path("u32")),
                         Field("pl_vel1", Path("u32")),
                         Field("pl_vel2", Path("u32")),
                         Field("pl_vel3", Path("u32")),
                         Field("pl_pos_horiz_orient", Path("u16")),
                         Field("pl_vel_horiz_orient", Path("u16")),
                         Field("pl_time", Path("u32")),
                         Field("reserved1", Array("u8", 4)) >> ]

Schemas == { MonIo, MonRxbuf, MonSpan, MonTxbuf, NavPl }

\* the schemas registered for a header
SchemasOf(class, id) == { s \in Schemas : s.class = class /\ s.id = id }

(***************************************************************************)
(* Streaming frame parser.                                                 *)
(***************************************************************************)
ParserStates == { "SeekingSync", "ReadingHeader", "ReadingPayload", "ReadingChecksum" }
ParseErrors == { "ChecksumMismatch", "UnknownMessage", "PayloadLengthMismatch" }

NoItem == [ kind |-> "None" ]
OkItem(class, id, payload, off) ==
    [ kind |-> "Ok", class |-> class, id |-> id, payload |-> payload, off |-> off ]
ErrItem(err, off) == [ kind |-> "Err", err |-> err, off |-> off ]

\* removal of n bytes from the end of the buffer
DropFromEnd(b, n) == SubSeq(b, 1, Len(b) - n)

Drop(b, n) == SubSeq(b, n + 1, Len(b))

\* length field of the candidate frame at the front of the buffer
PayloadLength(b) == b[5] + 256 * b[6]

\* Frame Codec checksum as the parser recomputes it: over the received bytes
\* class, id, length low, length high, payload (offsets 2 .. 6+len)
fletcher[bytes \in Seq(Nat), i \in Nat, ck_a \in Nat, ck_b \in Nat] ==
    IF i > Len(bytes) THEN << ck_a, ck_b >>
    ELSE fletcher[bytes, i + 1, (ck_a + bytes[i]) % 256, (ck_b + ck_a + bytes[i]) % 256]

checksum(b) == fletcher[SubSeq(b, 3, 6 + PayloadLength(b)), 1, 0, 0]

\* Need that forgets the two checksum bytes
NeedNoChecksum(st, b) ==
    CASE st = "SeekingSync"     -> 2
      [] st = "ReadingHeader"   -> 6
      [] st = "ReadingPayload"  -> 6 + PayloadLength(b)
      [] st = "ReadingChecksum" -> 6 + PayloadLength(b)

\* bytes a state requires; the length field is only read once it is buffered
Need(st, b) ==
    CASE st = "SeekingSync"     -> 2
      [] st = "ReadingHeader"   -> 6
      [] st = "ReadingPayload"  -> 6 + PayloadLength(b)
      [] st = "ReadingChecksum" -> 8 + PayloadLength(b)

\* too few bytes surfaced as an Incomplete error item
WaitIncomplete(b, st, off) ==
    [ buf |-> b, state |-> st, off |-> off,
      item |-> [ kind |-> "Err", err |-> "Incomplete", off |-> off ], fault |-> FALSE ]

\* too few bytes buffered: nothing is yielded, the bytes stay
Wait(b, st, off) ==
    [ buf |-> b, state |-> st, off |-> off, item |-> NoItem, fault |-> FALSE ]

\* a rejected candidate that is removed whole instead of by its first byte
RejectWholeFrame(b, off, err) ==
    [ buf |-> Drop(b, 8 + PayloadLength(b)), state |-> "SeekingSync",
      off |-> off + 8 + PayloadLength(b),
      item |-> ErrItem(err, off), fault |-> FALSE ]

\* a rejected candidate: one failed item, the first buffered byte discarded
Reject(b, off, err) ==
    [ buf |-> Drop(b, 1), state |-> "SeekingSync", off |-> off + 1,
      item |-> ErrItem(err, off), fault |-> FALSE ]

\* an accepted frame that is yielded but left in the buffer
AcceptKeepFrame(b, off) ==
    [ buf |-> b, state |-> "SeekingSync", off |-> off,
      item |-> OkItem(b[3], b[4], SubSeq(b, 7, 6 + PayloadLength(b)), off),
      fault |-> FALSE ]

\* an accepted frame: the decoded message, the whole frame removed
Accept(b, off) ==
    LET len == PayloadLength(b)
    IN  [ buf |-> Drop(b, 8 + len), state |-> "SeekingSync", off |-> off + 8 + len,
          item |-> OkItem(b[3], b[4], SubSeq(b, 7, 6 + len), off),
          fault |-> FALSE ]

\* completing ReadingChecksum; reading past the buffered bytes is a fault
Validate(b, off) ==
    IF Len(b) < 6 \/ Len(b) < 8 + PayloadLength(b)
    THEN [ buf |-> b, state |-> "ReadingChecksum", off |-> off,
           item |-> NoItem, fault |-> TRUE ]
    ELSE LET len == PayloadLength(b)
         IN  IF checksum(b) # << b[7 + len], b[8 + len] >>
             THEN Reject(b, off, "ChecksumMismatch")
             ELSE IF SchemasOf(b[3], b[4]) = {}
             THEN Reject(b, off, "UnknownMessage")
             ELSE IF \A s \in SchemasOf(b[3], b[4]) : s.fixed_payload_len # len
             THEN Reject(b, off, "PayloadLengthMismatch")
             ELSE Accept(b, off)

\* SeekingSync on a mismatch skipping two bytes at once
SeekSkipTwo(b) == IF Len(b) >= 2 /\ b[1] = SYNC_CHAR_1 THEN 2 ELSE 1

\* bytes SeekingSync discards when the front of the buffer is no sync marker
SeekSkip(b) == 1

\* one pull of the iteration: advance through the state machine as far as
\* the buffered bytes allow; off is the stream offset of the first byte of b
RECURSIVE next(_, _, _)
next(b, st, off) ==
    IF st = "SeekingSync"
    THEN IF Len(b) = 0 THEN Wait(b, st, off)
         ELSE IF b[1] # SYNC_CHAR_1 THEN next(Drop(b, SeekSkip(b)), st, off + SeekSkip(b))
         ELSE IF Len(b) < Need(st, b) THEN Wait(b, st, off)
         ELSE IF b[2] # SYNC_CHAR_2 THEN next(Drop(b, SeekSkip(b)), st, off + SeekSkip(b))
         ELSE next(b, "ReadingHeader", off)
    ELSE IF st = "ReadingHeader"
    THEN IF Len(b) < Need(st, b) THEN Wait(b, st, off)
         ELSE next(b, "ReadingPayload", off)
    ELSE IF st = "ReadingPayload"
    THEN IF Len(b) < Need(st, b) THEN Wait(b, st, off)
         ELSE next(b, "ReadingChecksum", off)
    ELSE IF Len(b) < Need(st, b) THEN Wait(b, st, off)
         ELSE Validate(b, off)

(***************************************************************************)
(* Field values and the strategies that produce them.                      *)
(***************************************************************************)
\* T::to_le_bytes, write_uN::<LittleEndian> and `as u8`: the w low bytes of
\* the two's complement of v, lowest first
RECURSIVE le_bytes(_, _)
le_bytes(v, w) ==
    IF w = 0 THEN <<>> ELSE << v % 256 >> \o le_bytes(v \div 256, w - 1)

\* the values of any::<T>(); the wide types stop at the largest integer the
\* checker has, floats are their bit patterns
any_min(name) ==
    CASE name \in { "u8", "u16", "u32", "u64", "f32", "f64" } -> 0
      [] name = "i8"  -> -128
      [] name = "i16" -> -32768
      [] name \in { "i32", "i64" } -> -2147483647

any_max(name) ==
    CASE name = "u8"  -> 255
      [] name = "i8"  -> 127
      [] name = "u16" -> 65535
      [] name = "i16" -> 32767
      [] OTHER -> 2147483647

any(name) == any_min(name) .. any_max(name)

\* `v as T` for the one- and two-byte integer types
as_raw(v, name) ==
    CASE name = "u8"  -> v % 256
      [] name = "i8"  -> ((v + 128) % 256) - 128
      [] name = "u16" -> v % 65536
      [] name = "i16" -> ((v + 32768) % 65536) - 32768
      [] OTHER -> v

\* the strategies the generators emit
AnyOf(name) == [ strat |-> "any", name |-> name ]
AnyArray(elem, len) == [ strat |-> "array", elem |-> elem, len |-> len ]
IndexOf(values, raw) == [ strat |-> "index", values |-> values, raw |-> raw ]

\* every value a strategy can produce
StrategyValues(s) ==
    CASE s.strat = "any"   -> any(s.name)
      [] s.strat = "array" -> [ 1 .. s.len -> any(s.elem) ]
      [] s.strat = "index" -> { as_raw(s.values[i], s.raw) : i \in 1 .. Len(s.values) }

\* the values the model draws: the edges of every type and values whose
\* bytes all differ
Probe == { -128, -1, 0, 1, 6, 255, 513, 65535, 67305985 }

\* the value with bytes k, k+1, ... of a w-byte type (at most four bytes)
RECURSIVE Ramp(_, _)
Ramp(k, w) == IF w = 0 THEN 0 ELSE k + 256 * Ramp(k + 1, w - 1)

\* one value of the strategy for the field at position k, no two alike
BaseValue(s, k) ==
    CASE s.strat = "any"   -> Ramp(k, IF size_of_prim(s.name) > 4 THEN 4 ELSE size_of_prim(s.name))
      [] s.strat = "array" -> [ j \in 1 .. s.len |-> Ramp(k + j, IF size_of_prim(s.elem) > 4 THEN 4 ELSE size_of_prim(s.elem)) ]
      [] s.strat = "index" -> as_raw(s.values[1], s.raw)

\* the values of the strategy the model draws
Picks(s, k) ==
    CASE s.strat = "any"   -> { v \in Probe : v \in any(s.name) }
      [] s.strat = "array" ->
            { [ j \in 1 .. s.len |-> v ] : v \in { p \in Probe : p \in any(s.elem) } }
            \cup { [ BaseValue(s, k) EXCEPT ![j] = v ] :
                        j \in 1 .. s.len, v \in { p \in Probe : p \in any(s.elem) } }
      [] s.strat = "index" -> StrategyValues(s)

\* tuples of a sequence of strategies: the base tuple, every tuple that
\* differs from it in one field, and every tuple of one probe throughout
Tuples(strats) ==
    LET n == Len(strats)
        base == [ k \in 1 .. n |-> BaseValue(strats[k], k) ]
        same(p) == [ k \in 1 .. n |->
                        CASE strats[k].strat = "any"   -> p
                          [] strats[k].strat = "array" -> [ j \in 1 .. strats[k].len |-> p ]
                          [] strats[k].strat = "index" -> BaseValue(strats[k], k) ]
        fits(p) == \A k \in 1 .. n :
                        CASE strats[k].strat = "any"   -> p \in any(strats[k].name)
                          [] strats[k].strat = "array" -> p \in any(strats[k].elem)
                          [] strats[k].strat = "index" -> TRUE
    IN  { base }
        \cup UNION { { [ base EXCEPT ![k] = v ] : v \in Picks(strats[k], k) } : k \in 1 .. n }
        \cup { same(p) : p \in { q \in Probe : fits(q) } }

\* concatenation of a sequence of byte sequences
RECURSIVE Concat(_)
Concat(ss) == IF ss = <<>> THEN <<>> ELSE Head(ss) \o Concat(Tail(ss))

(***************************************************************************)
(* generated/tests/fuzz_*.rs: the expected values, their bytes, the frame  *)
(***************************************************************************)
\* <name>_strategy: any::<T>() per scalar, prop::array::uniformN(any::<T>())
\* per array
test_strategy(desc) ==
    [ k \in 1 .. Len(desc.fields) |->
        IF desc.fields[k].ty.kind = "array"
        THEN AnyArray(desc.fields[k].ty.elem, desc.fields[k].ty.len)
        ELSE AnyOf(desc.fields[k].ty.name) ]

\* big-endian writes
write_field_be(ty, v) ==
    IF ty.kind = "array"
    THEN Concat([ j \in 1 .. ty.len |-> le_bytes(v[j], size_of_prim(ty.elem)) ])
    ELSE LET b == le_bytes(v, size_of_prim(ty.name))
         IN  [ i \in 1 .. Len(b) |-> b[Len(b) + 1 - i] ]

\* wtr.push(x), wtr.push(x as u8), wtr.write_uN::<LittleEndian>(x),
\* wtr.extend_from_slice(&arr), for v in &arr { wtr.write_uN(*v) }
write_field(ty, v) ==
    IF ty.kind = "array"
    THEN Concat([ j \in 1 .. ty.len |-> le_bytes(v[j], size_of_prim(ty.elem)) ])
    ELSE le_bytes(v, size_of_prim(ty.name))

\* to_bytes that writes one byte per array element
to_bytes_byte_elems(desc, expected) ==
    Concat([ k \in 1 .. Len(desc.fields) |->
                IF desc.fields[k].ty.kind = "array"
                THEN [ j \in 1 .. desc.fields[k].ty.len |-> expected[k][j] % 256 ]
                ELSE write_field(desc.fields[k].ty, expected[k]) ])

\* Expected<Name>::to_bytes
to_bytes(desc, expected) ==
    Concat([ k \in 1 .. Len(desc.fields) |-> write_field(desc.fields[k].ty, expected[k]) ])

\* the loop of the tests' own calculate_checksum(data), from byte i on
test_ck_loop[data \in Seq(Nat), i \in Nat, ck_a \in Nat, ck_b \in Nat] ==
    IF i > Len(data) THEN << ck_a, ck_b >>
    ELSE test_ck_loop[data, i + 1, wrapping_add(ck_a, data[i]),
                      wrapping_add(wrapping_add(ck_a, data[i]), ck_b)]

\* the tests' calculate_checksum started behind the class byte
test_calculate_checksum_from_id(data) == test_ck_loop[data, 2, 0, 0]

\* the tests' own calculate_checksum(data)
test_calculate_checksum(data) == test_ck_loop[data, 1, 0, 0]

\* build_<name>_frame with the length written high byte first
build_test_frame_len_be(desc, expected) ==
    LET payload == to_bytes(desc, expected)
        length == as_u16(Len(payload))
        frame_core == << desc.class, desc.id, to_le_bytes(length)[2], to_le_bytes(length)[1] >>
                        \o payload
        ck == test_calculate_checksum(frame_core)
    IN  << SYNC_CHAR_1, SYNC_CHAR_2 >> \o frame_core \o << ck[1], ck[2] >>

\* build_<name>_frame
build_test_frame(desc, expected) ==
    LET payload == to_bytes(desc, expected)
        length == as_u16(Len(payload))
        frame_core == << desc.class, desc.id >> \o to_le_bytes(length) \o payload
        ck == test_calculate_checksum(frame_core)
    IN  << SYNC_CHAR_1, SYNC_CHAR_2 >> \o frame_core \o << ck[1], ck[2] >>

(***************************************************************************)
(* Enum registry and field codec decode.                                   *)
(***************************************************************************)
\* names of mapped types, letter by letter
GnssFixType == << "G", "n", "s", "s", "F", "i", "x", "T", "y", "p", "e" >>
LinkStatus == << "L", "i", "n", "k", "S", "t", "a", "t", "u", "s" >>
ResetMode == << "R", "e", "s", "e", "t", "M", "o", "d", "e" >>

\* the registered enums: UbxEnumFuzzable::valid_raw_values and the policy
EnumNames == { GnssFixType, LinkStatus, ResetMode }

valid_raw_values(ident) ==
    CASE ident = GnssFixType   -> << 0, 1, 2, 3, 4, 5 >>
      [] ident = LinkStatus    -> << 0, 1, 2 >>
      [] ident = ResetMode     -> << 0, 1, 2, 4, 8, 9 >>

reserved_policy(ident) ==
    IF ident = GnssFixType THEN "Lenient" ELSE "Strict"

IsValidRaw(ident, raw) ==
    \E i \in 1 .. Len(valid_raw_values(ident)) : valid_raw_values(ident)[i] = raw

\* registry decode: the variant of a raw value, or InvalidEnumValue
enum_decode(ident, raw) ==
    IF IsValidRaw(ident, raw) \/ reserved_policy(ident) = "Lenient"
    THEN [ err |-> "none", raw |-> raw ]
    ELSE [ err |-> "InvalidEnumValue", raw |-> raw ]

\* the integer of little-endian bytes
RECURSIVE le_value(_)
le_value(bytes) ==
    IF bytes = <<>> THEN 0 ELSE Head(bytes) + 256 * le_value(Tail(bytes))

RECURSIVE le_signed(_)
le_signed(bytes) ==
    IF Len(bytes) = 1
    THEN (IF Head(bytes) >= 128 THEN Head(bytes) - 256 ELSE Head(bytes))
    ELSE Head(bytes) + 256 * le_signed(Tail(bytes))

from_le_bytes(bytes, name) ==
    IF name \in Signed THEN le_signed(bytes) ELSE le_value(bytes)

\* byte offset of field k: the widths of the fields before it
RECURSIVE offset_of(_, _)
offset_of(desc, k) ==
    IF k = 1 THEN 0 ELSE offset_of(desc, k - 1) + size_of(desc.fields[k - 1].ty)

\* the value of field k read at its offset
read_field(desc, payload, k) ==
    LET ty == desc.fields[k].ty
        off == offset_of(desc, k)
    IN  IF ty.kind = "array"
        THEN [ j \in 1 .. ty.len |->
                 from_le_bytes(SubSeq(payload, off + (j - 1) * size_of_prim(ty.elem) + 1,
                                      off + j * size_of_prim(ty.elem)), ty.elem) ]
        ELSE from_le_bytes(SubSeq(payload, off + 1, off + size_of_prim(ty.name)), ty.name)

\* field codec decode of a fixed-length schema
decode(desc, payload) ==
    LET n == Len(desc.fields)
        raw == [ k \in 1 .. n |-> read_field(desc, payload, k) ]
        bad == { k \in 1 .. n : /\ desc.fields[k].map_type.ident \in EnumNames
                                /\ enum_decode(desc.fields[k].map_type.ident, raw[k]).err # "none" }
    IN  IF Len(payload) # desc.fixed_payload_len
        THEN [ err |-> "PayloadLengthMismatch", fields |-> <<>> ]
        ELSE IF bad # {}
        THEN [ err |-> "InvalidEnumValue", fields |-> <<>> ]
        ELSE [ err |-> "none", fields |-> raw ]

(***************************************************************************)
(* gen_fuzz_code.rs: the strategies and serializers the derive macro emits *)
(***************************************************************************)
MAX_TUPLE_SIZE == 12

EndsWith(name, suffix) ==
    /\ Len(name) >= Len(suffix)
    /\ SubSeq(name, Len(name) - Len(suffix) + 1, Len(name)) = suffix

Contains(name, part) ==
    \E i \in 1 .. Len(name) :
        i + Len(part) - 1 <= Len(name) /\ SubSeq(name, i, i + Len(part) - 1) = part

PrimitiveNames ==
    { << "u", "8" >>, << "u", "1", "6" >>, << "u", "3", "2" >>, << "u", "6", "4" >>,
      << "i", "8" >>, << "i", "1", "6" >>, << "i", "3", "2" >>, << "i", "6", "4" >>,
      << "f", "3", "2" >>, << "f", "6", "4" >>, << "b", "o", "o", "l" >> }

ExcludedSuffixes ==
    { << "F", "l", "a", "g", "s" >>, << "I", "t", "e", "r" >>, << "S", "t", "a", "t", "u", "s" >>, << "E", "r", "r", "o", "r" >>,
      << "I", "n", "f", "o" >>, << "D", "a", "t", "a" >>, << "C", "o", "n", "f", "i", "g" >>, << "S", "e", "t", "t", "i", "n", "g", "s" >> }

WhitelistedSuffixes ==
    { << "T", "y", "p", "e" >>, << "M", "o", "d", "e" >>, << "S", "o", "u", "r", "c", "e" >>, << "P", "o", "w", "e", "r" >> }

is_simple_enum_type(ty) ==
    IF ty.kind # "path" THEN FALSE
    ELSE IF ty.arguments THEN FALSE
    ELSE IF ty.ident \in PrimitiveNames THEN FALSE
    ELSE IF \E x \in ExcludedSuffixes : EndsWith(ty.ident, x) THEN FALSE
    ELSE IF \/ \E x \in WhitelistedSuffixes : EndsWith(ty.ident, x)
            \/ Contains(ty.ident, << "F", "i", "x" >>)
         THEN TRUE
    ELSE FALSE

is_u8_type(elem) == elem = "u8"

generate_strategy_for_type(ty) ==
    CASE ty.kind = "path" ->
            IF ty.name \in IntTypes \cup { "f32", "f64" } THEN AnyOf(ty.name) ELSE AnyOf("u8")
      [] ty.kind = "array" ->
            IF is_u8_type(ty.elem) THEN AnyArray("u8", ty.len) ELSE AnyArray("u8", ty.len)
      [] OTHER -> AnyOf("u8")

generate_strategy_for_field(field) ==
    IF field.map_type # NoMap /\ is_simple_enum_type(field.map_type)
    THEN IndexOf(valid_raw_values(field.map_type.ident), field.ty.name)
    ELSE generate_strategy_for_type(field.ty)

\* the statements generate_serializer_for_type emits
Push == [ ser |-> "push" ]
ExtendLe(width) == [ ser |-> "to_le_bytes", width |-> width ]
ExtendSlice == [ ser |-> "extend_from_slice" ]

generate_serializer_for_type(ty) ==
    CASE ty.kind = "path" ->
            IF ty.name \in { "u8", "i8" } THEN Push
            ELSE IF ty.name \in IntTypes \cup { "f32", "f64" } THEN ExtendLe(size_of_prim(ty.name))
            ELSE Push
      [] ty.kind = "array" -> ExtendSlice
      [] OTHER -> Push

\* what a serializer statement appends for the value bound to the field name
serialize(ser, v) ==
    CASE ser.ser = "push" -> << as_raw(v, "u8") >>
      [] ser.ser = "to_le_bytes" -> le_bytes(v, ser.width)
      [] ser.ser = "extend_from_slice" -> [ j \in 1 .. Len(v) |-> as_raw(v[j], "u8") ]

field_strategies(desc) ==
    [ k \in 1 .. Len(desc.fields) |-> generate_strategy_for_field(desc.fields[k]) ]

chaos_strategies(desc) ==
    [ k \in 1 .. Len(desc.fields) |-> generate_strategy_for_type(desc.fields[k].ty) ]

field_serializers(desc) ==
    [ k \in 1 .. Len(desc.fields) |-> generate_serializer_for_type(desc.fields[k].ty) ]

field_names(desc) == [ k \in 1 .. Len(desc.fields) |-> desc.fields[k].name ]

\* the value bound to a field name by the closure's pattern; names[i] is
\* bound to values[i]
Bound(names, values, name) ==
    values[CHOOSE i \in 1 .. Len(names) : names[i] = name]

\* #(#field_serializers)* run with the names bound as given
run_serializers(desc, names, values) ==
    Concat([ k \in 1 .. Len(desc.fields) |->
                serialize(field_serializers(desc)[k],
                          Bound(names, values, desc.fields[k].name)) ])

\* slice::chunks(n)
chunks(seq, n) ==
    [ c \in 1 .. ((Len(seq) + n - 1) \div n) |->
        SubSeq(seq, (c - 1) * n + 1, IF c * n < Len(seq) THEN c * n ELSE Len(seq)) ]

\* let (names of chunk i) = chunk_i; for every chunk
flatten(name_chunks, value_chunks) ==
    [ names  |-> Concat(name_chunks),
      values |-> Concat(value_chunks) ]

\* the methods generate_fuzz_code_for_packet emits for a description
generated_methods(desc) ==
    IF Len(desc.fields) = 0
    THEN { "fuzz_payload_strategy", "fuzz_frame_strategy" }
    ELSE { "fuzz_payload_strategy", "fuzz_frame_strategy",
           "fuzz_payload_chaos_strategy", "fuzz_frame_chaos_strategy" }

\* Just(Vec::new()) with a byte in it
empty_payload_one_byte(desc) == << 0 >>

\* Just(Vec::new())
empty_payload(desc) == <<>>

\* the payload of the flat strategies for one sample of the field tuple
flat_payload(desc, values) ==
    run_serializers(desc, field_names(desc), values)

\* the chunked payload with the fields of the full chunks only, as with
\* slice::chunks_exact
chunked_payload_exact(desc, value_chunks) ==
    LET name_chunks == chunks(field_names(desc), MAX_TUPLE_SIZE)
        bound == flatten(name_chunks, value_chunks)
        full == (Len(desc.fields) \div MAX_TUPLE_SIZE) * MAX_TUPLE_SIZE
    IN  Concat([ k \in 1 .. full |->
                    serialize(field_serializers(desc)[k],
                              Bound(bound.names, bound.values, desc.fields[k].name)) ])

\* the payload of the chunked valid strategy for one sample of its chunks
chunked_payload(desc, value_chunks) ==
    LET name_chunks == chunks(field_names(desc), MAX_TUPLE_SIZE)
        bound == flatten(name_chunks, value_chunks)
    IN  run_serializers(desc, bound.names, bound.values)

(***************************************************************************)
(* State.                                                                  *)
(***************************************************************************)
VARIABLES
    fclass,     \* class handed to the frame helpers
    fid,        \* id handed to the frame helpers
    fpayload,   \* payload handed to the frame helpers
    fpc,        \* "start" before the helpers ran, "built" after
    frame,      \* result of build_ubx_frame
    cksum,      \* result of calculate_checksum
    stream,     \* the bytes the transport delivers, in order
    pos,        \* how many of them feed has accepted
    capacity,   \* fixed buffer capacity, 0 for a growable buffer
    buf,        \* ParserBuffer: the unconsumed tail
    state,      \* state of the frame state machine
    consumed,   \* bytes removed from the front of the buffer so far
    out,        \* the items yielded so far
    lastFeed,   \* result of the last call if it was a feed, else "none"
    oneBuffer,  \* every pull so far came after the whole stream was fed
    fault,      \* the parser read past its buffer
    gdesc,      \* the packet description a generator works on
    gmode,      \* "test", "valid" or "chaos": the strategy that sampled
    gvalues,    \* the sampled field values, in declaration order
    gpayload,   \* their serialized payload
    gframe,     \* the payload wrapped in a frame
    gitem,      \* the first item a fresh parser yields for the frame
    gdecoded,   \* the result of field codec decode
    gpc,        \* how far the generated sample has come
    registry,   \* the packet schemas constructed so far
    scand,      \* the schema last handed to the constructor
    sresult     \* what the constructor answered

fvars == << fclass, fid, fpayload, fpc, frame, cksum >>
pvars == << stream, pos, capacity, buf, state, consumed, out, lastFeed, oneBuffer, fault >>
gvars == << gdesc, gmode, gvalues, gpayload, gframe, gitem, gdecoded, gpc >>
svars == << registry, scand, sresult >>
vars == << fclass, fid, fpayload, fpc, frame, cksum,
           stream, pos, capacity, buf, state, consumed, out, lastFeed, oneBuffer, fault,
           gdesc, gmode, gvalues, gpayload, gframe, gitem, gdecoded, gpc,
           registry, scand, sresult >>

(***************************************************************************)
(* The frame helpers applied to every input of the bounded sets.           *)
(***************************************************************************)
ClassSet == { 1, 10, 181, 255 }
IdSet == { 2, 7, 98, 255 }
PayloadBytes == { 0, 1, 181, 255 }
Payloads == SeqsUpTo(PayloadBytes, MaxPayloadLen)

\* a freshly constructed parser that is given nothing
ParserIdle ==
    /\ stream = <<>>
    /\ pos = 0
    /\ capacity = 0
    /\ buf = <<>>
    /\ state = "SeekingSync"
    /\ consumed = 0
    /\ out = <<>>
    /\ lastFeed = "none"
    /\ oneBuffer = TRUE
    /\ fault = FALSE

\* the result of a decode that has not run
NotDecoded == [ err |-> "pending", fields |-> <<>> ]

\* a schema with its declared length taken as Fixed(n) or as Max(n)
Declared(desc, kind) == [ schema |-> desc, kind |-> kind ]

\* no schema constructed
SchemaIdle ==
    /\ registry = {}
    /\ scand = Declared(MonIo, "Fixed")
    /\ sresult = "none"

\* no generator at work
GenIdle ==
    /\ gdesc = MonIo
    /\ gmode = "none"
    /\ gvalues = <<>>
    /\ gpayload = <<>>
    /\ gframe = <<>>
    /\ gitem = NoItem
    /\ gdecoded = NotDecoded
    /\ gpc = "idle"

FrameInit ==
    /\ fclass \in ClassSet
    /\ fid \in IdSet
    /\ fpayload \in Payloads
    /\ fpc = "start"
    /\ frame = <<>>
    /\ cksum = << 0, 0 >>
    /\ ParserIdle
    /\ GenIdle
    /\ SchemaIdle

BuildFrame ==
    /\ fpc = "start"
    /\ cksum' = calculate_checksum(fclass, fid, fpayload)
    /\ frame' = build_ubx_frame(fclass, fid, fpayload)
    /\ fpc' = "built"
    /\ UNCHANGED << fclass, fid, fpayload >>
    /\ UNCHANGED pvars
    /\ UNCHANGED << gvars, svars >>

FrameNext == BuildFrame

SpecFrame == FrameInit /\ [][FrameNext]_vars

(***************************************************************************)
(* The frame helpers applied to payloads around 65536 bytes.               *)
(***************************************************************************)
\* a payload of n bytes b
Fill(n, b) == [ i \in 1 .. n |-> b ]

\* the lengths around the largest a u16 holds
LongLens == (65536 - 1) .. (65536 + MaxOver)

LongPayloads == { Fill(n, b) : n \in LongLens, b \in { 1, 255 } }

\* the class and id the long payloads are framed with
LongHeaders == { << 1, 7 >>, << 255, 255 >> }

LongInit ==
    /\ \/ /\ fclass \in ClassSet
          /\ fid \in IdSet
          /\ fpayload \in Payloads
       \/ /\ \E h \in LongHeaders : fclass = h[1] /\ fid = h[2]
          /\ fpayload \in LongPayloads
    /\ fpc = "start"
    /\ frame = <<>>
    /\ cksum = << 0, 0 >>
    /\ ParserIdle
    /\ GenIdle
    /\ SchemaIdle

SpecLong == LongInit /\ [][FrameNext]_vars

(***************************************************************************)
(* Input streams of the parser.                                            *)
(***************************************************************************)
\* frames of registered schemas, built by build_ubx_frame
MonIoFrame == build_ubx_frame(MonIo.class, MonIo.id, <<>>)
MonSpanFrame == build_ubx_frame(MonSpan.class, MonSpan.id, << 0, 1, 0, 0 >>)
\* a MON-SPAN frame whose payload looks like the header of another frame
MonSpanSyncFrame == build_ubx_frame(MonSpan.class, MonSpan.id, << 181, 98, 10, 2 >>)

ValidFrames == { MonIoFrame, MonSpanFrame, MonSpanSyncFrame }

\* well-formed frame of a header no schema is registered for (ACK-ACK)
UnknownFrame == build_ubx_frame(5, 1, << 10, 2 >>)
\* well-formed MON-IO frame whose length differs from the fixed length 0
WrongLenFrame == build_ubx_frame(MonIo.class, MonIo.id, << 0 >>)
\* a header announcing 32 payload bytes
BogusHeader == << 181, 98, 10, 2, 32, 0 >>

\* frame f with its i-th byte changed
Corrupt(f, i) == [ f EXCEPT ![i] = (f[i] + 1) % 256 ]

CorruptedFrames ==
    { Corrupt(f, i) : f \in { MonIoFrame }, i \in 3..Len(MonIoFrame) }
      \cup { Corrupt(MonSpanFrame, i) : i \in 7..Len(MonSpanFrame) }
      \cup { Corrupt(MonSpanSyncFrame, Len(MonSpanSyncFrame)) }

BogusFrames == CorruptedFrames \cup { UnknownFrame, WrongLenFrame, BogusHeader }

JunkBytes == { 0, 98, 181, 255 }
JunkRuns == SeqsUpTo(JunkBytes, MaxJunk)

Prefixes(f) == { SubSeq(f, 1, k) : k \in 1..(Len(f) - 1) }

\* F1, one byte, F2
ResyncStreams == { f1 \o << x >> \o f2 : f1 \in ValidFrames, x \in JunkBytes, f2 \in ValidFrames }
\* a bogus candidate frame, then a valid frame
BogusThenValid == { r \o f : r \in BogusFrames, f \in ValidFrames }
\* junk, then possibly a valid frame
JunkStreams == JunkRuns \cup { j \o MonIoFrame : j \in JunkRuns }
\* a truncated frame, then a valid frame
TruncatedThenValid == { t \o f : t \in Prefixes(MonIoFrame) \cup Prefixes(MonSpanFrame), f \in ValidFrames }

\* a valid frame, a bogus candidate frame, a valid frame
ValidBogusValid == { MonIoFrame \o r \o f : r \in BogusFrames, f \in ValidFrames }

Streams ==
    ValidFrames \cup ResyncStreams \cup BogusThenValid \cup JunkStreams
        \cup TruncatedThenValid \cup ValidBogusValid

(***************************************************************************)
(* The parser fed a stream in chunks and pulled in between.                *)
(***************************************************************************)
Init ==
    /\ fclass = 0
    /\ fid = 0
    /\ fpayload = <<>>
    /\ fpc = "start"
    /\ frame = <<>>
    /\ cksum = << 0, 0 >>
    /\ stream \in Streams
    /\ pos = 0
    /\ capacity \in { 0, Capacity }
    /\ buf = <<>>
    /\ state = "SeekingSync"
    /\ consumed = 0
    /\ out = <<>>
    /\ lastFeed = "none"
    /\ oneBuffer = TRUE
    /\ fault = FALSE
    /\ GenIdle
    /\ SchemaIdle

\* a feed that appends as much as fits and drops the rest
FeedTruncating(n) ==
    /\ ~fault
    /\ pos + n <= Len(stream)
    /\ LET fits == IF capacity = 0 THEN n
                   ELSE IF capacity - Len(buf) < n THEN capacity - Len(buf) ELSE n
       IN  /\ buf' = buf \o SubSeq(stream, pos + 1, pos + fits)
           /\ pos' = pos + n
           /\ lastFeed' = IF fits < n THEN "BufferOverflow" ELSE "Ok"
    /\ UNCHANGED << capacity, stream, state, consumed, out, oneBuffer, fault >>
    /\ UNCHANGED fvars
    /\ UNCHANGED << gvars, svars >>

\* feed(bytes): append the next n bytes of the stream to the buffer; beyond a
\* fixed capacity the call fails and appends nothing
Feed(n) ==
    /\ ~fault
    /\ pos + n <= Len(stream)
    /\ IF capacity # 0 /\ Len(buf) + n > capacity
       THEN /\ lastFeed' = "BufferOverflow"
            /\ UNCHANGED << buf, pos >>
       ELSE /\ lastFeed' = "Ok"
            /\ buf' = buf \o SubSeq(stream, pos + 1, pos + n)
            /\ pos' = pos + n
    /\ UNCHANGED << capacity, stream, state, consumed, out, oneBuffer, fault >>
    /\ UNCHANGED fvars
    /\ UNCHANGED << gvars, svars >>

\* one pull of the iteration
Iterate ==
    /\ ~fault
    /\ LET r == next(buf, state, consumed)
       IN  /\ buf' = r.buf
           /\ state' = r.state
           /\ consumed' = r.off
           /\ fault' = r.fault
           /\ out' = IF r.item = NoItem THEN out ELSE Append(out, r.item)
    /\ lastFeed' = "none"
    /\ oneBuffer' = (oneBuffer /\ pos = Len(stream))
    /\ UNCHANGED << capacity, stream, pos >>
    /\ UNCHANGED fvars
    /\ UNCHANGED << gvars, svars >>

ChunkSizes == (0..MaxChunk) \cup { Len(stream) - pos }

Next ==
    \/ \E n \in ChunkSizes : Feed(n)
    \/ Iterate

Spec == Init /\ [][Next]_vars

(***************************************************************************)
(* The generated round-trip tests: a sample of <name>_strategy, its frame, *)
(* a fresh parser fed the frame and pulled once.                           *)
(***************************************************************************)
\* the frame helpers before they ran
FrameIdle ==
    /\ fclass = 0
    /\ fid = 0
    /\ fpayload = <<>>
    /\ fpc = "start"
    /\ frame = <<>>
    /\ cksum = << 0, 0 >>

TestInit ==
    /\ gdesc \in Schemas
    /\ gmode = "test"
    /\ gvalues \in Tuples(test_strategy(gdesc))
    /\ gpayload = <<>>
    /\ gframe = <<>>
    /\ gitem = NoItem
    /\ gdecoded = NotDecoded
    /\ gpc = "sampled"
    /\ FrameIdle
    /\ ParserIdle
    /\ SchemaIdle

\* expected.to_bytes()
ToBytes ==
    /\ gpc = "sampled"
    /\ gpayload' = to_bytes(gdesc, gvalues)
    /\ gpc' = "encoded"
    /\ UNCHANGED << gdesc, gmode, gvalues, gframe, gitem, gdecoded >>
    /\ UNCHANGED << fvars, pvars, svars >>

\* field codec decode of the payload
DecodePayload ==
    /\ gpc = "encoded"
    /\ gdecoded = NotDecoded
    /\ gdecoded' = decode(gdesc, gpayload)
    /\ UNCHANGED << gdesc, gmode, gvalues, gpayload, gframe, gitem, gpc >>
    /\ UNCHANGED << fvars, pvars, svars >>

\* <name>_frame_strategy: build_<name>_frame(&expected)
FrameStrategy ==
    /\ gpc = "encoded"
    /\ gframe' = build_test_frame(gdesc, gvalues)
    /\ gdecoded' = NotDecoded
    /\ gpc' = "framed"
    /\ UNCHANGED << gdesc, gmode, gvalues, gpayload, gitem >>
    /\ UNCHANGED << fvars, pvars, svars >>

\* ParserBuilder::default().build(), consume_ubx(&frame), it.next()
ConsumeUbx ==
    /\ gpc = "framed"
    /\ gitem' = next(gframe, "SeekingSync", 0).item
    /\ gpc' = "pulled"
    /\ UNCHANGED << gdesc, gmode, gvalues, gpayload, gframe, gdecoded >>
    /\ UNCHANGED << fvars, pvars, svars >>

\* the fields of the packet the parser yielded
DecodeItem ==
    /\ gpc = "pulled"
    /\ gitem # NoItem
    /\ gitem.kind = "Ok"
    /\ gdecoded' = decode(gdesc, gitem.payload)
    /\ gpc' = "unpacked"
    /\ UNCHANGED << gdesc, gmode, gvalues, gpayload, gframe, gitem >>
    /\ UNCHANGED << fvars, pvars, svars >>

TestNext ==
    \/ ToBytes
    \/ DecodePayload
    \/ FrameStrategy
    \/ ConsumeUbx
    \/ DecodeItem

SpecTest == TestInit /\ [][TestNext]_vars

(***************************************************************************)
(* The derive macro's strategies run on packet descriptions.               *)
(***************************************************************************)
\* the first twelve fields of NAV-PVT: fix_type, mapped to GnssFixType, is
\* the byte at payload offset 20
NavPvtHead ==
    [ name |-> "NavPvt", class |-> 1, id |-> 7, fixed_payload_len |-> 22,
      fields |-> << Field("itow", Path("u32")),
                    Field("year", Path("u16")),
                    Field("month", Path("u8")),
                    Field("day", Path("u8")),
                    Field("hour", Path("u8")),
                    Field("min", Path("u8")),
                    Field("sec", Path("u8")),
                    Field("valid", Path("u8")),
                    Field("time_accuracy", Path("u32")),
                    Field("nanosecond", Path("i32")),
                    Mapped("fix_type", Path("u8"), MapPath(GnssFixType, FALSE)),
                    Field("flags", Path("u8")) >> ]

\* a description with two enum-mapped fields: one whose type name the
\* generator takes for an enum and one whose type name it does not
LinkState ==
    [ name |-> "LinkState", class |-> 10, id |-> 9, fixed_payload_len |-> 2,
      fields |-> << Mapped("mode", Path("u8"), MapPath(ResetMode, FALSE)),
                    Mapped("status", Path("u8"), MapPath(LinkStatus, FALSE)) >> ]

\* a description whose fields are mapped to types the generator does not
\* take for enums: a scaled float, a bitflags type, a type whose name holds
\* Fix and ends in Status, a generic type with the name of an enum, a name
\* of no known pattern
FixStatus == << "F", "i", "x", "S", "t", "a", "t", "u", "s" >>
ModeFlags == << "M", "o", "d", "e", "F", "l", "a", "g", "s" >>
PowerMode == << "P", "o", "w", "e", "r", "M", "o", "d", "e" >>
Dynamics == << "D", "y", "n", "a", "m", "i", "c", "s" >>
F64 == << "f", "6", "4" >>

MapKinds ==
    [ name |-> "MapKinds", class |-> 10, id |-> 11, fixed_payload_len |-> 9,
      fields |-> << Mapped("lat", Path("i32"), MapPath(F64, FALSE)),
                    Mapped("flags", Path("u8"), MapPath(ModeFlags, FALSE)),
                    Mapped("fix_status", Path("u8"), MapPath(FixStatus, FALSE)),
                    Mapped("power", Path("u16"), MapPath(PowerMode, TRUE)),
                    Mapped("dynamics", Path("i8"), MapPath(Dynamics, FALSE)) >> ]

\* descriptions of n scalar fields, named 1 .. n, of cycling types
WideType(k) ==
    CASE k % 4 = 1 -> "u8"
      [] k % 4 = 2 -> "u16"
      [] k % 4 = 3 -> "i8"
      [] k % 4 = 0 -> "u32"

RECURSIVE WideLen(_)
WideLen(n) == IF n = 0 THEN 0 ELSE WideLen(n - 1) + size_of_prim(WideType(n))

Wide(n) ==
    [ name |-> "Wide", class |-> 200, id |-> n, fixed_payload_len |-> WideLen(n),
      fields |-> [ k \in 1 .. n |-> Field(k, Path(WideType(k))) ] ]

WideCounts == { 0 } \cup ((MAX_TUPLE_SIZE - 1) .. MaxFields)

DeriveDescs ==
    Schemas \cup { NavPvtHead, LinkState, MapKinds } \cup { Wide(n) : n \in WideCounts }

\* PayloadLen::Fixed(len) | PayloadLen::Max(len) => len
payload_len(desc) == desc.fixed_payload_len

DeriveInit ==
    /\ gdesc \in DeriveDescs
    /\ gmode \in { "valid", "chaos" }
    /\ gvalues = <<>>
    /\ gpayload = <<>>
    /\ gframe = <<>>
    /\ gitem = NoItem
    /\ gdecoded = NotDecoded
    /\ gpc = "start"
    /\ FrameIdle
    /\ ParserIdle
    /\ SchemaIdle

\* fuzz_payload_strategy of a description without fields
EmptyPayloadStrategy ==
    /\ gpc = "start"
    /\ Len(gdesc.fields) = 0
    /\ gmode = "valid"
    /\ gvalues' = <<>>
    /\ gpayload' = empty_payload(gdesc)
    /\ gpc' = "payload"
    /\ UNCHANGED << gdesc, gmode, gframe, gitem, gdecoded >>
    /\ UNCHANGED << fvars, pvars, svars >>

\* fuzz_payload_strategy and fuzz_payload_chaos_strategy of a description
\* of at most MAX_TUPLE_SIZE fields: one tuple of the field strategies
FlatPayloadStrategy ==
    /\ gpc = "start"
    /\ Len(gdesc.fields) > 0
    /\ Len(gdesc.fields) <= MAX_TUPLE_SIZE
    /\ \E t \in Tuples(IF gmode = "valid" THEN field_strategies(gdesc)
                                           ELSE chaos_strategies(gdesc)) :
            /\ gvalues' = t
            /\ gpayload' = flat_payload(gdesc, t)
    /\ gpc' = "payload"
    /\ UNCHANGED << gdesc, gmode, gframe, gitem, gdecoded >>
    /\ UNCHANGED << fvars, pvars, svars >>

\* fuzz_payload_strategy of a description of more fields: a tuple of chunks
ChunkedPayloadStrategy ==
    /\ gpc = "start"
    /\ Len(gdesc.fields) > MAX_TUPLE_SIZE
    /\ gmode = "valid"
    /\ \E t \in Tuples(field_strategies(gdesc)) :
            /\ gvalues' = t
            /\ gpayload' = chunked_payload(gdesc, chunks(t, MAX_TUPLE_SIZE))
    /\ gpc' = "payload"
    /\ UNCHANGED << gdesc, gmode, gframe, gitem, gdecoded >>
    /\ UNCHANGED << fvars, pvars, svars >>

\* fuzz_payload_chaos_strategy of a description of more fields:
\* proptest::collection::vec(any::<u8>(), payload_len)
ChunkedChaosPayloadStrategy ==
    /\ gpc = "start"
    /\ Len(gdesc.fields) > MAX_TUPLE_SIZE
    /\ gmode = "chaos"
    /\ \E bytes \in Picks(AnyArray("u8", payload_len(gdesc)), 1) :
            gpayload' = bytes
    /\ gvalues' = <<>>
    /\ gpc' = "payload"
    /\ UNCHANGED << gdesc, gmode, gframe, gitem, gdecoded >>
    /\ UNCHANGED << fvars, pvars, svars >>

\* fuzz_frame_strategy and fuzz_frame_chaos_strategy: the payload wrapped
DeriveFrameStrategy ==
    /\ gpc = "payload"
    /\ gframe' = build_ubx_frame(gdesc.class, gdesc.id, gpayload)
    /\ gpc' = "frame"
    /\ UNCHANGED << gdesc, gmode, gvalues, gpayload, gitem, gdecoded >>
    /\ UNCHANGED << fvars, pvars, svars >>

\* field codec decode of a payload of the valid strategy
DeriveDecode ==
    /\ gpc = "payload"
    /\ gmode = "valid"
    /\ gdecoded = NotDecoded
    /\ gdecoded' = decode(gdesc, gpayload)
    /\ UNCHANGED << gdesc, gmode, gvalues, gpayload, gframe, gitem, gpc >>
    /\ UNCHANGED << fvars, pvars, svars >>

DeriveNext ==
    \/ EmptyPayloadStrategy
    \/ FlatPayloadStrategy
    \/ ChunkedPayloadStrategy
    \/ ChunkedChaosPayloadStrategy
    \/ DeriveFrameStrategy
    \/ DeriveDecode

SpecDerive == DeriveInit /\ [][DeriveNext]_vars

(***************************************************************************)
(* Packet Schema Model: construction of schemas.                           *)
(***************************************************************************)
\* sum of the byte widths of the fields
RECURSIVE SumWidths(_, _)
SumWidths(desc, n) ==
    IF n = 0 THEN 0 ELSE SumWidths(desc, n - 1) + size_of(desc.fields[n].ty)

\* the tiling invariant: the fields fill a fixed length exactly and stay
\* within a maximum length
Tiles(c) ==
    IF c.kind = "Fixed"
    THEN SumWidths(c.schema, Len(c.schema.fields)) = c.schema.fixed_payload_len
    ELSE SumWidths(c.schema, Len(c.schema.fields)) <= c.schema.fixed_payload_len

\* the schemas handed to the constructor: the generated packets as they
\* are declared, with their length as a maximum, and with a declared length
\* that leaves a gap or cuts a field
Candidates ==
    { Declared(d, "Fixed") : d \in Schemas }
    \cup { Declared(MonSpan, "Max"), Declared([ NavPl EXCEPT !.fixed_payload_len = 60 ], "Max") }
    \cup { Declared([ d EXCEPT !.fixed_payload_len = d.fixed_payload_len + 1 ], "Fixed") :
                d \in Schemas }
    \cup { Declared([ d EXCEPT !.fixed_payload_len = d.fixed_payload_len - SchemaCut ], k) :
                d \in Schemas \ { MonIo }, k \in { "Fixed", "Max" } }

SchemaInit ==
    /\ SchemaIdle
    /\ GenIdle
    /\ FrameIdle
    /\ ParserIdle

\* construct a schema: validated, then registered
Construct(c) ==
    /\ scand' = c
    /\ IF Tiles(c)
       THEN /\ sresult' = "Ok"
            /\ registry' = registry \cup { c }
       ELSE /\ sresult' = "SchemaInvalid"
            /\ UNCHANGED registry
    /\ UNCHANGED << fvars, pvars, gvars >>

SchemaNext == \E c \in Candidates : Construct(c)

SpecSchema == SchemaInit /\ [][SchemaNext]_vars

(***************************************************************************)
(* Claims about the frame helpers.                                         *)
(***************************************************************************)
RECURSIVE SumSeq(_)
SumSeq(s) == IF s = <<>> THEN 0 ELSE Head(s) + SumSeq(Tail(s))

\* sum over k of the (unwrapped) sum of the first k bytes
RECURSIVE SumOfPrefixSums(_)
SumOfPrefixSums(s) ==
    IF s = <<>> THEN 0
    ELSE SumSeq(s) + SumOfPrefixSums(SubSeq(s, 1, Len(s) - 1))

\* the bytes the checksum covers: class, id, length low, length high, payload
ChecksumDomain ==
    << fclass, fid, Len(fpayload) % 256, Len(fpayload) \div 256 >> \o fpayload

\* C1: calculate_checksum returns (ck_a, ck_b) with ck_a the sum modulo 256
\* of class, id, length-low, length-high and the payload bytes, and ck_b the
\* sum modulo 256 of the running ck_a after each of these bytes; the sync
\* bytes are not part of the sum; (0x01, 0x07, empty) gives (0x08, 0x19).
C1_Checksum ==
    fpc = "built" =>
        /\ cksum[1] = SumSeq(ChecksumDomain) % 256
        /\ cksum[2] = SumOfPrefixSums(ChecksumDomain) % 256
        /\ (fclass = 1 /\ fid = 7 /\ fpayload = <<>>) => cksum = << 8, 25 >>

\* a checksum was computed whose sums wrapped around 256
C1_Witness ==
    /\ fpc = "built"
    /\ Len(fpayload) = MaxPayloadLen
    /\ SumSeq(ChecksumDomain) >= 256
    /\ cksum[1] # cksum[2]

\* C2: the frame of build_ubx_frame has length 8 + payload.len(), starts
\* with 0xB5 0x62 class id, carries the payload length as little-endian u16
\* in bytes 4..5, then the payload unchanged, and ends with the two bytes of
\* calculate_checksum(class, id, payload).
C2_FrameStructure ==
    fpc = "built" =>
        /\ Len(frame) = 8 + Len(fpayload)
        /\ frame[1] = 181
        /\ frame[2] = 98
        /\ frame[3] = fclass
        /\ frame[4] = fid
        /\ frame[5] + 256 * frame[6] = Len(fpayload)
        /\ SubSeq(frame, 7, 6 + Len(fpayload)) = fpayload
        /\ << frame[Len(frame) - 1], frame[Len(frame)] >> = cksum

\* a frame with a non-empty payload was built
C2_Witness ==
    /\ fpc = "built"
    /\ Len(fpayload) = MaxPayloadLen
    /\ frame[5] = MaxPayloadLen

(***************************************************************************)
(* Claims about the streaming frame parser.                                *)
(***************************************************************************)
IsOk(it) == it.kind = "Ok"
IsErr(it) == it.kind = "Err"
OkItems == SelectSeq(out, IsOk)
ErrItems == SelectSeq(out, IsErr)

\* the item a frame built from (class, id, payload) decodes to
MessageOf(f, off) == OkItem(f[3], f[4], SubSeq(f, 7, Len(f) - 2), off)

\* a further pull would yield nothing
Exhausted == next(buf, state, consumed).item = NoItem
\* the whole stream was fed and the iteration is exhausted
Quiescent == pos = Len(stream) /\ Exhausted /\ ~fault
\* no call can change the parser any more: the iteration is exhausted and
\* either nothing is left to feed or the fixed buffer is full
Stuck ==
    /\ Exhausted
    /\ ~fault
    /\ next(buf, state, consumed).buf = buf
    /\ \/ pos = Len(stream)
       \/ capacity # 0 /\ Len(buf) = capacity

\* the buffer from its first byte that may start a sync marker
RECURSIVE SkipToSync(_)
SkipToSync(b) ==
    IF b = <<>> THEN b
    ELSE IF b[1] # 181 THEN SkipToSync(Tail(b))
    ELSE IF Len(b) >= 2 /\ b[2] # 98 THEN SkipToSync(Tail(b))
    ELSE b

\* the candidate frame the state machine is working on
Candidate == IF state = "SeekingSync" THEN SkipToSync(buf) ELSE buf

\* bytes the candidate needs before it can be accepted or rejected
Required(c) ==
    IF Len(c) < 2 THEN 2
    ELSE IF Len(c) < 6 THEN 6
    ELSE 8 + c[5] + 256 * c[6]

\* C3: a buffer holding a valid frame F1, one more byte, and a valid frame
\* F2 yields, once the iteration is exhausted, the message of F1 first and
\* the message of F2 last, with nothing but error items between them.
C3_Resync ==
    \A f1 \in ValidFrames, f2 \in ValidFrames, x \in JunkBytes :
        (stream = f1 \o << x >> \o f2 /\ Quiescent) =>
            /\ Len(out) >= 2
            /\ out[1] = MessageOf(f1, 0)
            /\ out[Len(out)] = MessageOf(f2, Len(f1) + 1)
            /\ \A i \in 2..(Len(out) - 1) : IsErr(out[i])

\* the whole of F1, 0xB5, F2 was buffered before the first pull, and the
\* iteration was then exhausted
C3_Witness ==
    /\ stream = MonSpanSyncFrame \o << 181 >> \o MonIoFrame
    /\ oneBuffer
    /\ Quiescent
    /\ Len(OkItems) = 2
    /\ consumed = Len(stream)

\* the last step yielded an error item
Rejected(o, o2) == Len(o2) = Len(o) + 1 /\ IsErr(o2[Len(o2)])

\* C4: a pull that rejects a candidate frame (checksum mismatch, unknown
\* (class,id), length inconsistent with the Fixed schema) removes exactly the
\* first byte of the candidate and returns to SeekingSync; the candidate's
\* other bytes stay buffered.
C4_RejectDropsOneByte ==
    [][ Rejected(out, out') =>
            /\ Len(Candidate) >= Required(Candidate)
            /\ buf' = Tail(Candidate)
            /\ state' = "SeekingSync"
            /\ out'[Len(out')].off = consumed + (Len(buf) - Len(Candidate))
            /\ consumed' = out'[Len(out')].off + 1
      ]_vars

\* a well-formed frame of the wrong length was rejected: only its first
\* byte left the buffer
C4_Witness ==
    /\ stream = WrongLenFrame \o MonSpanFrame
    /\ pos = Len(stream)
    /\ out = << ErrItem("PayloadLengthMismatch", 0) >>
    /\ state = "SeekingSync"
    /\ buf = Tail(stream)

\* C5: a bogus candidate frame never prevents the recovery of a later valid
\* frame: once no call can change the parser any more, the message of the
\* valid frame that followed the bogus candidate has been yielded.
C5_LaterFrameRecovered ==
    \A r \in BogusFrames, f \in ValidFrames :
        (stream = r \o f /\ Stuck) =>
            \E i \in 1..Len(out) : out[i] = MessageOf(f, Len(r))

\* C6: the decoded messages are yielded in strictly increasing order of the
\* stream offset their frames start at, each is the frame found at that
\* offset, and no frame is yielded twice.
C6_Order ==
    /\ \A i \in 1..Len(OkItems) :
          LET it == OkItems[i]
          IN  /\ it.off + 8 + Len(it.payload) <= pos
              /\ SubSeq(stream, it.off + 1, it.off + 8 + Len(it.payload))
                    = build_ubx_frame(it.class, it.id, it.payload)
    /\ \A i \in 1..(Len(OkItems) - 1) :
          OkItems[i].off + 8 + Len(OkItems[i].payload) <= OkItems[i + 1].off

\* two messages were yielded around a rejected frame
C6_Witness ==
    /\ stream \in ValidBogusValid
    /\ Len(OkItems) = 2
    /\ Len(ErrItems) >= 1
    /\ OkItems[1].off < ErrItems[1].off
    /\ ErrItems[1].off < OkItems[2].off

\* C7: on every fed byte sequence the iteration ends after finitely many
\* items (each item costs at least one buffered byte), every item is Ok or a
\* categorized error, and the parser never faults.
C7_Totality ==
    /\ ~fault
    /\ state \in ParserStates
    /\ \A i \in 1..Len(out) :
          \/ IsOk(out[i])
          \/ IsErr(out[i]) /\ out[i].err \in ParseErrors
    /\ Len(out) <= consumed
    /\ consumed + Len(buf) = pos
    /\ next(buf, state, consumed).fault = FALSE

\* a stream of junk was consumed to the end without any item
C7_Witness ==
    /\ Len(stream) = MaxJunk
    /\ stream \in JunkRuns
    /\ stream[1] = 0
    /\ Quiescent
    /\ consumed >= MaxJunk - 1
    /\ out = <<>>

\* C8: while the candidate frame is not completely buffered a pull yields
\* nothing and keeps the candidate's bytes; so a valid frame delivered in any
\* chunks yields no item before its last byte is fed, and then the same
\* message as when fed in one chunk.
C8_IncompleteYieldsNothing ==
    [][ /\ Len(Candidate) < Required(Candidate) =>
            /\ out' = out
            /\ Len(Candidate) >= 2 =>
                  /\ Candidate' = Candidate \o SubSeq(stream, pos + 1, pos')
                  /\ \E k \in 0..Len(buf') : Drop(buf', k) = Candidate'
        /\ stream \in ValidFrames =>
            /\ pos' < Len(stream) => out' = <<>>
            /\ Quiescent' => out' = << MessageOf(stream, 0) >>
            /\ Quiescent' => out' = << next(stream, "SeekingSync", 0).item >>
      ]_vars

\* a valid frame arrived in several chunks with pulls in between and was
\* then decoded
C8_Witness ==
    /\ stream = MonSpanFrame
    /\ ~oneBuffer
    /\ Quiescent
    /\ out = << MessageOf(MonSpanFrame, 0) >>

C10_BufferOverflow ==
    [][ /\ lastFeed' = "BufferOverflow" =>
            /\ capacity # 0
            /\ buf' = buf
            /\ pos' = pos
            /\ ~fault'
        /\ pos' # pos =>
            /\ lastFeed' = "Ok"
            /\ buf' = buf \o SubSeq(stream, pos + 1, pos')
        /\ capacity # 0 => Len(buf') <= capacity
      ]_vars

\* a feed failed on a buffer that already held bytes
C10_Witness ==
    /\ lastFeed = "BufferOverflow"
    /\ capacity = Capacity
    /\ Len(buf) >= Capacity - MaxChunk + 1
    /\ pos = Len(buf) + consumed
    /\ pos < Len(stream)

(***************************************************************************)
(* Claims about the generated round-trip tests and the field codec.        *)
(***************************************************************************)
\* C11: for MON-IO, MON-RXBUF, MON-SPAN, MON-TXBUF and NAV-PL and every tuple
\* of field values, the first item a fresh parser yields for the one frame
\* built from the tuple is the parsed packet of that schema carrying the
\* tuple's payload: never an error and never nothing.
C11_FirstItemOk ==
    gmode = "test" /\ gpc \in { "pulled", "unpacked" } =>
        /\ gitem # NoItem
        /\ IsOk(gitem)
        /\ gitem.class = gdesc.class
        /\ gitem.id = gdesc.id
        /\ gitem.payload = to_bytes(gdesc, gvalues)
        /\ gitem.off = 0

C11_Witness ==
    /\ gmode = "test"
    /\ gpc = "pulled"
    /\ gdesc = NavPl
    /\ Len(gframe) = 60
    /\ IsOk(gitem)

C13_MonRxbuf ==
    gmode = "test" /\ gdesc = MonRxbuf =>
        /\ gpc # "sampled" => Len(gpayload) = 24
        /\ gpc \in { "framed", "pulled", "unpacked" } =>
              /\ Len(gframe) = 32
              /\ gframe[3] = 10
              /\ gframe[4] = 7
        /\ gpc = "pulled" => IsOk(gitem)
        /\ gpc = "unpacked" => gdecoded.err = "none" /\ gdecoded.fields = gvalues

C13_Witness ==
    /\ gmode = "test"
    /\ gdesc = MonRxbuf
    /\ gpc = "unpacked"
    /\ gvalues[1][2] = 65535
    /\ gdecoded.fields = gvalues
    /\ Len(gframe) = 32

(***************************************************************************)
(* Claims about the derive macro's strategies.                             *)
(***************************************************************************)
\* the fields mapped to a registered enum
EnumFields(desc) ==
    { k \in 1 .. Len(desc.fields) : desc.fields[k].map_type.ident \in EnumNames }

Sampled == gpc \in { "payload", "frame" }

\* C14: every value the valid strategy produces for an enum-mapped field is
\* one of the mapping's valid_raw_values, so that no payload of the valid
\* strategy decodes with an enum error.
C14_ValidEnumValues ==
    gmode = "valid" /\ Sampled =>
        /\ \A k \in EnumFields(gdesc) :
              IsValidRaw(gdesc.fields[k].map_type.ident, gvalues[k])
        /\ gdecoded.err # "InvalidEnumValue"

\* the full range of a field's raw type
RawStrategy(ty) ==
    IF ty.kind = "array" THEN AnyArray(ty.elem, ty.len) ELSE AnyOf(ty.name)

\* two strategies over integers or arrays of integers produce the same values
SameValues(s, r) ==
    /\ s.strat = r.strat
    /\ s.strat = "any" =>
          any_min(s.name) = any_min(r.name) /\ any_max(s.name) = any_max(r.name)
    /\ s.strat = "array" =>
          /\ s.len = r.len
          /\ any_min(s.elem) = any_min(r.elem)
          /\ any_max(s.elem) = any_max(r.elem)

\* C15: the chaos strategy samples every field, enum-mapped ones included,
\* over the full range of the field's raw type: every raw value is
\* producible, and for an enum-mapped field so is a value outside its
\* valid_raw_values.
C15_ChaosFullRange ==
    gmode = "chaos" /\ Sampled /\ Len(gdesc.fields) <= MAX_TUPLE_SIZE =>
        /\ \A k \in 1 .. Len(gdesc.fields) :
              SameValues(chaos_strategies(gdesc)[k], RawStrategy(gdesc.fields[k].ty))
        /\ \A k \in EnumFields(gdesc) :
              \E v \in StrategyValues(chaos_strategies(gdesc)[k]) :
                  ~IsValidRaw(gdesc.fields[k].map_type.ident, v)

\* C16: every payload of the valid and of the chaos strategy has exactly the
\* declared length, each field contributing the bytes of its raw type, an
\* array its element width times its count.
C16_PayloadLen ==
    Sampled =>
        /\ Len(gpayload) = payload_len(gdesc)
        /\ gvalues # <<>> =>
              \A k \in 1 .. Len(gdesc.fields) :
                  Len(serialize(field_serializers(gdesc)[k], gvalues[k]))
                      = size_of(gdesc.fields[k].ty)

\* C17: for a description of more than MAX_TUPLE_SIZE fields the payload
\* generated in groups is byte for byte the flat encoding of the same field
\* values, whatever the number of fields, a last group of one included.
C17_GroupingTransparent ==
    gmode = "valid" /\ Len(gdesc.fields) > MAX_TUPLE_SIZE /\ Sampled =>
        /\ gpayload = flat_payload(gdesc, gvalues)
        /\ gpayload = to_bytes(gdesc, gvalues)

C17_Witness ==
    /\ gmode = "valid"
    /\ gdesc = Wide(MAX_TUPLE_SIZE + 1)
    /\ gpc = "payload"
    /\ Len(chunks(gvalues, MAX_TUPLE_SIZE)) = 2
    /\ chunks(gvalues, MAX_TUPLE_SIZE)[2] = << 255 >>
    /\ gpayload[Len(gpayload)] = 255
    /\ gpayload = to_bytes(gdesc, gvalues)

\* C18: for a description without fields the payload strategy always gives
\* the empty payload and the frame strategy always the same 8-byte frame:
\* sync bytes, class, id, length 0 and the checksum of the empty payload.
C18_ZeroFields ==
    Len(gdesc.fields) = 0 /\ Sampled =>
        /\ gpayload = <<>>
        /\ gpc = "frame" =>
              gframe = << SYNC_CHAR_1, SYNC_CHAR_2, gdesc.class, gdesc.id, 0, 0,
                          (gdesc.class + gdesc.id) % 256,
                          (4 * gdesc.class + 3 * gdesc.id) % 256 >>

C18_Witness ==
    /\ gdesc = MonIo
    /\ gmode = "valid"
    /\ gpc = "frame"
    /\ gframe = << 181, 98, 10, 2, 0, 0, 12, 46 >>

\* C19: in every generated payload the k-th field starts at the sum of the
\* byte widths of the fields before it, without padding, and holds the
\* field's value little-endian.
C19_FieldOffsets ==
    Sampled /\ gvalues # <<>> =>
        \A k \in 1 .. Len(gdesc.fields) :
            /\ offset_of(gdesc, k) + size_of(gdesc.fields[k].ty) <= Len(gpayload)
            /\ SubSeq(gpayload, offset_of(gdesc, k) + 1,
                      offset_of(gdesc, k) + size_of(gdesc.fields[k].ty))
                  = write_field(gdesc.fields[k].ty, gvalues[k])

(***************************************************************************)
(* Claims about the packet schema model.                                   *)
(***************************************************************************)
\* one construction step
C20_Step ==
    /\ \A c \in registry' : Tiles(c)
    /\ sresult' = "SchemaInvalid" => ~Tiles(scand') /\ registry' = registry
    /\ sresult' = "Ok" => Tiles(scand') /\ registry' = registry \cup { scand' }
    /\ \A d \in Schemas : SumWidths(d, Len(d.fields)) = d.fixed_payload_len
    /\ << SumWidths(MonIo, 0), SumWidths(MonRxbuf, 3), SumWidths(MonSpan, 3),
          SumWidths(MonTxbuf, 7), SumWidths(NavPl, 23) >> = << 0, 24, 4, 28, 52 >>

\* C20: every registered schema satisfies the tiling invariant; constructing
\* a schema that violates it answers SchemaInvalid and leaves the registered
\* schemas as they were; the fields of MON-IO, MON-RXBUF, MON-SPAN, MON-TXBUF
\* and NAV-PL sum to their fixed lengths 0, 24, 4, 28 and 52.
C20_Tiling == [][C20_Step]_vars

C20_Witness ==
    /\ sresult = "SchemaInvalid"
    /\ scand = Declared([ MonRxbuf EXCEPT !.fixed_payload_len = 23 ], "Fixed")
    /\ { Declared(d, "Fixed") : d \in Schemas } \subseteq registry

(***************************************************************************)
(* Claims about the methods the derive macro emits.                        *)
(***************************************************************************)
\* the payload and frame generators of both families
BothFamilies ==
    { "fuzz_payload_strategy", "fuzz_frame_strategy",
      "fuzz_payload_chaos_strategy", "fuzz_frame_chaos_strategy" }

\* some payload strategy of the chosen family can be sampled
PayloadStrategy ==
    \/ EmptyPayloadStrategy
    \/ FlatPayloadStrategy
    \/ ChunkedPayloadStrategy
    \/ ChunkedChaosPayloadStrategy

\* C21: for every description, one without fields and one of more than
\* MAX_TUPLE_SIZE fields included, the generator emits the valid and the
\* chaos payload and frame generators, and the chosen one can be sampled.
C21_BothFamilies ==
    gpc = "start" =>
        /\ BothFamilies \subseteq generated_methods(gdesc)
        /\ ENABLED PayloadStrategy

\* the mapped types the valid strategy is to take for enums: a path whose
\* last segment has no generic arguments and a name that is no primitive,
\* has none of the excluded endings, and has a whitelisted ending or holds
\* Fix
Accepted(ty) ==
    /\ ty.kind = "path"
    /\ ~ty.arguments
    /\ ty.ident \notin PrimitiveNames
    /\ \A x \in ExcludedSuffixes : ~EndsWith(ty.ident, x)
    /\ \/ \E x \in WhitelistedSuffixes : EndsWith(ty.ident, x)
       \/ Contains(ty.ident, << "F", "i", "x" >>)

\* C23: the valid strategy restricts a mapped field to valid_raw_values
\* exactly when is_simple_enum_type accepts the mapped type, which it does
\* exactly for the types described above, the excluded endings taking
\* precedence; every other field is sampled over the full range of its raw
\* type.
C23_SimpleEnumHeuristic ==
    gmode = "valid" /\ Sampled =>
        \A k \in 1 .. Len(gdesc.fields) :
            LET f == gdesc.fields[k]
                s == field_strategies(gdesc)[k]
            IN  /\ is_simple_enum_type(f.map_type) <=> Accepted(f.map_type)
                /\ IF f.map_type # NoMap /\ Accepted(f.map_type)
                   THEN /\ s = IndexOf(valid_raw_values(f.map_type.ident), f.ty.name)
                        /\ \E i \in 1 .. Len(s.values) :
                              gvalues[k] = as_raw(s.values[i], f.ty.name)
                   ELSE SameValues(s, RawStrategy(f.ty))

(***************************************************************************)
(* Claims about the parser buffer.                                         *)
(***************************************************************************)
\* the bytes fed so far
Fed == SubSeq(stream, 1, pos)

\* one call of feed or of next()
C22_Step ==
    /\ buf' = SubSeq(stream', consumed' + 1, pos')
    /\ lastFeed' # "none" =>
          /\ out' = out
          /\ consumed' = consumed
          /\ \E n \in 0 .. (Len(stream) - pos) :
                /\ pos' = pos + n
                /\ buf' = buf \o SubSeq(stream, pos + 1, pos + n)
    /\ lastFeed' = "none" =>
          /\ pos' = pos
          /\ \E k \in 0 .. Len(buf) :
                /\ consumed' = consumed + k
                /\ buf' = SubSeq(buf, k + 1, Len(buf))
                /\ Len(out') > Len(out) /\ IsOk(out'[Len(out')]) =>
                      \E j \in 0 .. k :
                          /\ j + 8 + Len(out'[Len(out')].payload) = k
                          /\ out'[Len(out')].off = consumed + j

\* C22: the buffer is always the bytes fed so far with a prefix removed;
\* feed only appends at the end and yields no item, and next() removes bytes
\* only from the front, a whole extracted frame or discarded junk.
C22_BufferIsSuffix == [][C22_Step]_vars

\* a frame was extracted from the front and a later feed appended bytes
\* behind what was left
C22_Witness ==
    /\ \E i \in 1 .. Len(out) : IsOk(out[i])
    /\ lastFeed = "Ok"
    /\ consumed >= 8
    /\ buf # <<>>
    /\ buf = SubSeq(Fed, consumed + 1, pos)

(***************************************************************************)
(* Claims about the frame helpers: the two builders, the length field, the *)
(* checksum under corruption.                                              *)
(***************************************************************************)
\* C24: the frame the generated test helper builds is byte for byte the
\* frame build_ubx_frame builds from the same class, id and payload, and
\* the helper's checksum over class, id, little-endian length and payload
\* is the pair calculate_checksum returns.
C24_BuildersAgree ==
    gmode = "test" /\ gpc \in { "framed", "pulled", "unpacked" } =>
        /\ gframe = build_ubx_frame(gdesc.class, gdesc.id, gpayload)
        /\ test_calculate_checksum(<< gdesc.class, gdesc.id >>
                                     \o to_le_bytes(as_u16(Len(gpayload))) \o gpayload)
              = calculate_checksum(gdesc.class, gdesc.id, gpayload)

\* a MON-TXBUF frame whose payload holds bytes that make the sums wrap
C24_Witness ==
    /\ gmode = "test"
    /\ gpc = "framed"
    /\ gdesc = MonTxbuf
    /\ Len(gpayload) = 28
    /\ \A i \in 1 .. 12 : gpayload[i] = 255
    /\ gframe = build_ubx_frame(10, 8, gpayload)

\* the checksum of class, id, the two length bytes and n bytes b: the sum
\* and the sum of the running sums, both modulo 256
FillChecksum(class, id, l0, l1, n, b) ==
    LET triangle == ((n % 512) * ((n + 1) % 512)) \div 2
    IN  << (class + id + l0 + l1 + n * b) % 256,
           ((n + 4) * class + (n + 3) * id + (n + 2) * l0 + (n + 1) * l1
              + b * triangle) % 256 >>

\* C25: the length field build_ubx_frame writes, and calculate_checksum
\* sums, is the payload byte count modulo 65536: the count itself up to
\* 65535 bytes; beyond, the frame still carries every payload byte in
\* 8 + payload.len() bytes and the length field no longer is their count.
C25_LengthField ==
    fpc = "built" =>
        LET n == Len(fpayload)
            field == frame[5] + 256 * frame[6]
        IN  /\ Len(frame) = 8 + n
            /\ SubSeq(frame, 7, 6 + n) = fpayload
            /\ field = n % 65536
            /\ n <= 65535 => field = n
            /\ n > 65535 => field = n - 65536 /\ field # n
            /\ << frame[7 + n], frame[8 + n] >> = cksum
            /\ (\A i \in 1 .. n : fpayload[i] = fpayload[1]) =>
                  cksum = FillChecksum(fclass, fid, (n % 65536) % 256, (n % 65536) \div 256,
                                       n, IF n = 0 THEN 0 ELSE fpayload[1])

\* a payload of 65537 bytes framed with the length field 1
C25_Witness ==
    /\ fpc = "built"
    /\ Len(fpayload) = 65537
    /\ Len(frame) = 65545
    /\ frame[5] = 1
    /\ frame[6] = 0
    /\ frame[65543] = 255

\* class, id and payload with one of these bytes replaced: position 1 is
\* the class, 2 the id, 2 + i the i-th payload byte
Altered(class, id, payload, at, v) ==
    [ class   |-> IF at = 1 THEN v ELSE class,
      id      |-> IF at = 2 THEN v ELSE id,
      payload |-> IF at > 2 THEN [ payload EXCEPT ![at - 2] = v ] ELSE payload ]

\* the byte of class, id, payload at a position
ByteAt(class, id, payload, at) ==
    IF at = 1 THEN class ELSE IF at = 2 THEN id ELSE payload[at - 2]

\* C26: replacing exactly one byte among class, id and the payload bytes by
\* a different value, the length unchanged, changes ck_a; the checksum pair
\* of the altered data differs from the original one, and the altered
\* frame with the original checksum bytes is rejected with
\* ChecksumMismatch.
C26_SingleByteCorruption ==
    fpc = "built" =>
        \A at \in 1 .. (2 + Len(fpayload)) :
            \A v \in (0 .. 255) \ { ByteAt(fclass, fid, fpayload, at) } :
                LET alt == Altered(fclass, fid, fpayload, at, v)
                    ck == calculate_checksum(alt.class, alt.id, alt.payload)
                    sent == << SYNC_CHAR_1, SYNC_CHAR_2, alt.class, alt.id >>
                                \o SubSeq(frame, 5, 6) \o alt.payload
                                \o SubSeq(frame, Len(frame) - 1, Len(frame))
                IN  /\ ck[1] # cksum[1]
                    /\ ck # cksum
                    /\ next(sent, "SeekingSync", 0).item = ErrItem("ChecksumMismatch", 0)

\* a payload byte changed by 128 in front of an even number of summed
\* bytes: ck_b stays as it was and ck_a alone shows the corruption
C26_Witness ==
    /\ fpc = "built"
    /\ Len(fpayload) >= 2
    /\ LET v == (fpayload[Len(fpayload) - 1] + 128) % 256
           alt == Altered(fclass, fid, fpayload, Len(fpayload) + 1, v)
           ck == calculate_checksum(alt.class, alt.id, alt.payload)
       IN  ck[2] = cksum[2] /\ ck[1] # cksum[1]

====
